---- MODULE Spec2Model ----
(***************************************************************************)
(* Model of the serial task queue of src/src/index.js (class Queue).       *)
(*                                                                         *)
(* Every call of enqueue gets the next call number i (1, 2, ...).  The     *)
(* promises the code creates for call i are modelled one by one:           *)
(*   callerPromise[i]  the promise enqueue returns          (line 73)      *)
(*   link[i]           this._tail.then(...) of that call    (line 95)      *)
(*   methodPromise[i]  Promise.method(service)(serviceApi)  (line 103)     *)
(* and pc[i] is the position of call i in the handler chain of lines       *)
(* 95-106: the link handler, the .then(resolve, reject) handlers and the   *)
(* .finally handler each run as a step of their own, as a promise library  *)
(* runs handlers from its job queue.                                       *)
(***************************************************************************)
EXTENDS Integers, Sequences, FiniteSets, TLC

\* Bound of the model: the number of enqueue calls of one run.
MaxCalls == 3

Calls == 1..MaxCalls

(***************************************************************************)
(* JavaScript values, as records [t, v].                                   *)
(***************************************************************************)
Undefined == [t |-> "undefined", v |-> 0]
Num(n) == [t |-> "number", v |-> n]
\* A plain object {a: n}.
Obj(n) == [t |-> "object", v |-> n]
\* An object with a reference to itself (test, lines 358-359).
Cyclic == [t |-> "cyclic", v |-> 0]
\* A function passed as the item.
FnItem == [t |-> "function", v |-> 0]
\* The promise enqueue returned for call j, as a value a task returns.
PromiseRef(j) == [t |-> "promise", v |-> j]
\* Error values; v tells two errors of the same kind apart.
Err(kind, n) == [t |-> kind, v |-> n]

\* The items the enqueue calls of the model pass.
Items == {Num(0), Cyclic}
\* What the task of call i returns or fulfils with, and what it throws or
\* rejects with: each task has a value and an error of its own.
TaskValues(i) == {Num(i)}
TaskErrors(i) == {Err("TaskError", i)}

(***************************************************************************)
(* JSON text is a sequence of character codes.                             *)
(***************************************************************************)
Digit(n) == 48 + n
IsDigit(c) == c >= 48 /\ c <= 57
\* {"a":n}
ObjText(n) == <<123, 34, 97, 34, 58, Digit(n), 125>>

\* JSON.stringify(item): a text, or undefined, or a thrown TypeError.
\* [threw, def, text]: threw = the call threw; def = a text was returned.
JSONstringify(item) ==
  CASE item.t = "number"   -> [threw |-> FALSE, def |-> TRUE, text |-> <<Digit(item.v)>>]
    [] item.t = "object"   -> [threw |-> FALSE, def |-> TRUE, text |-> ObjText(item.v)]
    [] item.t = "cyclic"   -> [threw |-> TRUE, def |-> FALSE, text |-> <<>>]
    [] OTHER               -> [threw |-> FALSE, def |-> FALSE, text |-> <<>>]

\* JSON.parse(text): a value, or a thrown SyntaxError.
JSONparse(text) ==
  IF Len(text) = 1 /\ IsDigit(text[1])
    THEN [threw |-> FALSE, value |-> Num(text[1] - 48)]
  ELSE IF Len(text) = 7 /\ IsDigit(text[6]) /\ text = ObjText(text[6] - 48)
    THEN [threw |-> FALSE, value |-> Obj(text[6] - 48)]
  ELSE [threw |-> TRUE, value |-> Undefined]

\* _serializeItem as it would be if it caught the error of JSON.stringify
\* and returned undefined.
_serializeItemCatch(item) ==
  LET s == JSONstringify(item)
  IN IF s.threw THEN [threw |-> FALSE, def |-> FALSE, text |-> <<>>] ELSE s

\* Queue._serializeItem
_serializeItem(item) == JSONstringify(item)

\* Queue._deserializeItem: s is [def, text]
_deserializeItem(s) ==
  IF ~s.def THEN [threw |-> FALSE, value |-> Undefined] ELSE JSONparse(s.text)

\* A _deserializeItem of a subclass of Queue that overrides the method with
\* a stricter one: it throws for a text that holds a number and decodes
\* every other text as Queue's own method does.
StrictDeserializeItem(s) ==
  IF s.def /\ Len(s.text) = 1 /\ IsDigit(s.text[1])
    THEN [threw |-> TRUE, value |-> Undefined]
    ELSE _deserializeItem(s)

\* Queue._getServiceApi: the object {item: ...}, or a thrown Error.  self
\* tells whose _deserializeItem the call this._deserializeItem reaches:
\* "Queue" for Queue's own, "Strict" for the overriding one.
_getServiceApi(self, s) ==
  LET d == IF self = "Queue" THEN _deserializeItem(s) ELSE StrictDeserializeItem(s)
  IN IF d.threw
       THEN [threw |-> TRUE, error |-> Err("NotDeserializable", 0), item |-> Undefined]
       ELSE [threw |-> FALSE, error |-> Undefined, item |-> d.value]

(***************************************************************************)
(* Promises: [st, val], st one of "none" (not created), "pending",         *)
(* "fulfilled", "rejected".                                                *)
(***************************************************************************)
NoPromise == [st |-> "none", val |-> Undefined]
Pending == [st |-> "pending", val |-> Undefined]
Fulfilled(v) == [st |-> "fulfilled", val |-> v]
Rejected(e) == [st |-> "rejected", val |-> e]
Settled(p) == p.st \in {"fulfilled", "rejected"}

VARIABLES
  ncalls,          \* number of enqueue calls made so far
  args,            \* args[i]: the arguments of call i: [n, item, service]
  by,              \* by[i]: 0, or the call whose task made call i
  during,          \* during[i]: 0, or the call whose task was running at call i
  serializedItem,  \* serializedItem[i]: [def, text] of line 90
  tail,            \* this._tail: 0 = the constructor's promise, i = link[i]
  link,            \* link[i]: [st, pred]: the promise of line 95 of call i
  callerPromise,   \* callerPromise[i]
  methodPromise,   \* methodPromise[i]
  pc,              \* pc[i]: "none", "queued", "invoked", "published", "done"
  invoked,         \* invoked[i]: how often the service of call i was invoked
  serviceApi,      \* serviceApi[i]: the item of the argument it was invoked with
  result,          \* result[i]: [out, val]: how the invocation of task i ended
  taskPromise,     \* taskPromise[i]: the promise task i returned, if it did
  startLog,        \* the calls whose service was invoked, in order
  deserializer,    \* whose _deserializeItem the queue object has
  heap,            \* heap[a]: the value the object at address a holds now
  itemRef,         \* itemRef[i]: 0, or the address of the item task i received
  follow           \* follow[i]: the caller's own handler on callerPromise[i]

vars == <<ncalls, args, by, during, serializedItem, tail, link, callerPromise,
          methodPromise, pc, invoked, serviceApi, result, taskPromise, startLog,
          deserializer, heap, itemRef, follow>>

\* The queue's state as one record, so that a handler that calls enqueue
\* applies both effects in one step.  SetQ names the new state r once and
\* assigns its fields.
CurQ ==
  [ncalls |-> ncalls, args |-> args, by |-> by, during |-> during,
   serializedItem |-> serializedItem, tail |-> tail, link |-> link,
   callerPromise |-> callerPromise, methodPromise |-> methodPromise, pc |-> pc,
   invoked |-> invoked, serviceApi |-> serviceApi, result |-> result,
   taskPromise |-> taskPromise, startLog |-> startLog,
   deserializer |-> deserializer, heap |-> heap, itemRef |-> itemRef]

SetQ(q) ==
  \E r \in {q} :
    /\ ncalls' = r.ncalls
    /\ args' = r.args
    /\ by' = r.by
    /\ during' = r.during
    /\ serializedItem' = r.serializedItem
    /\ tail' = r.tail
    /\ link' = r.link
    /\ callerPromise' = r.callerPromise
    /\ methodPromise' = r.methodPromise
    /\ pc' = r.pc
    /\ invoked' = r.invoked
    /\ serviceApi' = r.serviceApi
    /\ result' = r.result
    /\ taskPromise' = r.taskPromise
    /\ startLog' = r.startLog
    /\ deserializer' = r.deserializer
    /\ heap' = r.heap
    /\ itemRef' = r.itemRef

NoArgs == [n |-> 0, item |-> Undefined, service |-> "undefined"]
NoText == [def |-> FALSE, text |-> <<>>]
NoResult == [out |-> "none", val |-> Undefined]

\* The addresses of the objects of a run: the item the caller passes to
\* call i is at CallerAddr(i); the item the handler of call i gets from
\* JSON.parse is a new object, at ParsedAddr(i).
CallerAddr(i) == i
ParsedAddr(i) == MaxCalls + i
Addrs == 1..(2 * MaxCalls)

\* The queue object after construction, this._tail = Promise.resolve();
\* d tells whose _deserializeItem it has.
InitQueue(d) ==
  /\ ncalls = 0
  /\ args = [i \in Calls |-> NoArgs]
  /\ by = [i \in Calls |-> 0]
  /\ during = [i \in Calls |-> 0]
  /\ serializedItem = [i \in Calls |-> NoText]
  /\ tail = 0
  /\ link = [i \in Calls |-> [st |-> "none", pred |-> 0]]
  /\ callerPromise = [i \in Calls |-> NoPromise]
  /\ methodPromise = [i \in Calls |-> NoPromise]
  /\ pc = [i \in Calls |-> "none"]
  /\ invoked = [i \in Calls |-> 0]
  /\ serviceApi = [i \in Calls |-> Undefined]
  /\ result = [i \in Calls |-> NoResult]
  /\ taskPromise = [i \in Calls |-> NoPromise]
  /\ startLog = <<>>
  /\ deserializer = d
  /\ heap = [a \in Addrs |-> Undefined]
  /\ itemRef = [i \in Calls |-> 0]
  /\ follow = [i \in Calls |-> "pending"]

\* new Queue()
Init == InitQueue("Queue")

\* new of a subclass of Queue that overrides _deserializeItem
InitStrict == InitQueue("Strict")

\* LinkSt as it would be if the constructor set this._tail to a promise
\* that is never resolved.
LinkStTailPending(q, l) == IF l = 0 THEN "pending" ELSE q.link[l].st

\* The state of promise l of the chain; 0 is the constructor's
\* Promise.resolve().
LinkSt(q, l) == IF l = 0 THEN "fulfilled" ELSE q.link[l].st

\* The call whose task is running when enqueue is called by parent (0: by
\* a caller that is no task of the queue): the task that makes the call, or
\* the task whose returned promise is pending; 0 if there is none.
RunningAt(q, parent) ==
  IF parent # 0 THEN parent
  ELSE IF \E k \in Calls : q.taskPromise[k].st = "pending"
    THEN CHOOSE k \in Calls : q.taskPromise[k].st = "pending"
  ELSE 0

(***************************************************************************)
(* enqueue(...args), lines 72-109, as a function of the queue's state.     *)
(* a = [n, item, service] are the arguments; parent is 0, or the call      *)
(* whose task makes this call.                                             *)
(***************************************************************************)
\* ArgsOk as it would be if the switch only refused the call without
\* arguments.
ArgsOkAtLeastOne(a) == a.n >= 1

\* The switch of lines 75-87: one or two arguments.
ArgsOk(a) == a.n \in {1, 2}

\* AdmitOn as it would be if line 95 did not store the new link in
\* this._tail.
AdmitOnStaleTail(q, i, s) ==
  [q EXCEPT !.serializedItem[i] = s,
            !.link[i] = [st |-> "pending", pred |-> q.tail],
            !.pc[i] = "queued"]

\* AdmitOn as it would be if the serialized item were kept in a field of the
\* queue instead of a variable of the call: every call overwrites it.
AdmitOnSharedItem(q, i, s) ==
  [q EXCEPT !.serializedItem = [k \in Calls |-> s],
            !.link[i] = [st |-> "pending", pred |-> q.tail],
            !.tail = i,
            !.pc[i] = "queued"]

\* AdmitOn as it would be if line 95 chained the handler onto a new
\* Promise.resolve() instead of this._tail.
AdmitOnFromStart(q, i, s) ==
  [q EXCEPT !.serializedItem[i] = s,
            !.link[i] = [st |-> "pending", pred |-> 0],
            !.tail = i,
            !.pc[i] = "queued"]

\* AdmitOn as it would be with a then() that runs the handler at once when
\* the promise is already fulfilled: on an idle queue the task would run
\* inside the call of enqueue.
AdmitOnRunIfIdle(q, i, s) ==
  IF LinkSt(q, q.tail) = "fulfilled"
    THEN [q EXCEPT !.serializedItem[i] = s,
                   !.link[i] = [st |-> "pending", pred |-> q.tail],
                   !.tail = i,
                   !.invoked[i] = 1,
                   !.startLog = Append(@, i),
                   !.result[i] = [out |-> "return", val |-> Undefined],
                   !.methodPromise[i] = Fulfilled(Undefined),
                   !.pc[i] = "invoked"]
    ELSE [q EXCEPT !.serializedItem[i] = s,
                   !.link[i] = [st |-> "pending", pred |-> q.tail],
                   !.tail = i,
                   !.pc[i] = "queued"]

\* Line 95: this._tail = this._tail.then(...); s is the serialized item.
AdmitOn(q, i, s) ==
  [q EXCEPT !.serializedItem[i] = s,
            !.link[i] = [st |-> "pending", pred |-> q.tail],
            !.tail = i,
            !.pc[i] = "queued"]

\* EnqueueOn as it would be if a call that is refused started the chain
\* anew (this._tail = Promise.resolve()) before it returns.
EnqueueOnResetTail(q, a, parent) ==
  LET i == q.ncalls + 1
      q1 == [q EXCEPT !.ncalls = i, !.args[i] = a, !.by[i] = parent,
                      !.during[i] = RunningAt(q, parent),
                      !.heap[CallerAddr(i)] = a.item,
                      !.callerPromise[i] = Pending]
      item == IF a.n = 2 THEN a.item ELSE Undefined
      s == _serializeItem(item)
  IN IF ~ArgsOk(a)
       THEN [q1 EXCEPT !.callerPromise[i] = Rejected(Err("IllegalInvocation", 0)),
                       !.tail = 0]
     ELSE IF s.threw
       THEN [q1 EXCEPT !.callerPromise[i] = Rejected(Err("NotSerializable", 0)),
                       !.tail = 0]
     ELSE AdmitOn(q1, i, [def |-> s.def, text |-> s.text])

EnqueueOn(q, a, parent) ==
  LET i == q.ncalls + 1
      \* line 73: the promise that is returned
      q1 == [q EXCEPT !.ncalls = i, !.args[i] = a, !.by[i] = parent,
                      !.during[i] = RunningAt(q, parent),
                      !.heap[CallerAddr(i)] = a.item,
                      !.callerPromise[i] = Pending]
      \* lines 75-82: with one argument the item stays undefined
      item == IF a.n = 2 THEN a.item ELSE Undefined
      s == _serializeItem(item)
  IN IF ~ArgsOk(a)
       \* lines 84-86
       THEN [q1 EXCEPT !.callerPromise[i] = Rejected(Err("IllegalInvocation", 0))]
     ELSE IF s.threw
       \* lines 91-93
       THEN [q1 EXCEPT !.callerPromise[i] = Rejected(Err("NotSerializable", 0))]
     ELSE AdmitOn(q1, i, [def |-> s.def, text |-> s.text])

(***************************************************************************)
(* What one invocation of a task function does: beh = [out, val, reenter,  *)
(* rargs].  out is "return" (val is the value returned), "throw" (val is   *)
(* the error thrown) or "promise" (a pending promise is returned); with    *)
(* reenter the task calls enqueue(rargs) on the same queue while it runs.  *)
(* With out = "inner" the task returns the promise that call of enqueue    *)
(* returned to it.                                                         *)
(***************************************************************************)
ServiceOn(q, i, beh) ==
  LET q1 == IF beh.reenter THEN EnqueueOn(q, beh.rargs, i) ELSE q
  IN [q1 EXCEPT !.result[i] =
                   [out |-> beh.out,
                    val |-> IF beh.out = "inner" THEN PromiseRef(q1.ncalls)
                                                 ELSE beh.val],
                !.taskPromise[i] = IF beh.out = "promise" THEN Pending ELSE NoPromise]

\* MethodOn as it would be if the promise a service returns were taken as
\* a plain value: the promise of Promise.method would fulfil with it.
MethodOnNoAdopt(q, i) ==
  [q EXCEPT !.methodPromise[i] =
     CASE q.result[i].out = "return" -> Fulfilled(q.result[i].val)
       [] q.result[i].out = "throw"  -> Rejected(q.result[i].val)
       [] q.result[i].out = "inner"  -> Fulfilled(q.result[i].val)
       [] OTHER                      -> q.taskPromise[i]]

\* Promise.method (line 103): the outcome of the call of the service as a
\* promise: fulfilled with the value returned, rejected with the error
\* thrown, or following the promise returned.
MethodOn(q, i) ==
  [q EXCEPT !.methodPromise[i] =
     CASE q.result[i].out = "return" -> Fulfilled(q.result[i].val)
       [] q.result[i].out = "throw"  -> Rejected(q.result[i].val)
       [] q.result[i].out = "inner"  -> q.callerPromise[q.result[i].val.v]
       [] OTHER                      -> q.taskPromise[i]]

\* A promise of Promise.method that follows the promise of another call
\* settles as that promise does, once it has settled.
SettleFollowers(q) ==
  [q EXCEPT !.methodPromise =
     [i \in Calls |->
        IF /\ q.result[i].out = "inner"
           /\ q.methodPromise[i].st = "pending"
           /\ Settled(q.callerPromise[q.result[i].val.v])
          THEN q.callerPromise[q.result[i].val.v]
          ELSE q.methodPromise[i]]]

\* LinkReady as it would be if line 95 chained the handler onto a fresh
\* resolved promise instead of this._tail.
LinkReadyNoChain(q, i) == q.pc[i] = "queued"

\* The handler of line 95 may run: its link waits on a fulfilled promise.
LinkReady(q, i) ==
  /\ q.pc[i] = "queued"
  /\ LinkSt(q, q.link[i].pred) = "fulfilled"

\* ServiceItem as it would be if enqueue kept the item itself and passed it
\* on: the task would get the caller's object, with the value it has now.
ServiceItemByReference(q, i, decoded) ==
  [addr |-> CallerAddr(i), val |-> q.heap[CallerAddr(i)]]

\* Lines 23-25: the item of the service invocation object is the value
\* _deserializeItem returned, an object of its own.
ServiceItem(q, i, decoded) == [addr |-> ParsedAddr(i), val |-> decoded]

\* InvokeOn as it would be if the handler did not return the promise of lines
\* 103-105: the link fulfils as soon as the service has been called.
InvokeOnNoReturn(q, i, item, beh) ==
  MethodOn(ServiceOn([q EXCEPT !.invoked[i] = @ + 1,
                               !.serviceApi[i] = ServiceItem(q, i, item).val,
                               !.itemRef[i] = ServiceItem(q, i, item).addr,
                               !.heap[ServiceItem(q, i, item).addr] =
                                  ServiceItem(q, i, item).val,
                               !.startLog = Append(@, i),
                               !.link[i].st = "fulfilled",
                               !.pc[i] = "invoked"],
                     i, beh), i)

\* InvokeOn as it would be if line 103 called service(serviceApi) without
\* Promise.method: an error thrown by the service would leave the handler
\* and reject the link.
InvokeOnNoCatch(q, i, item, beh) ==
  LET q1 == MethodOn(ServiceOn([q EXCEPT !.invoked[i] = @ + 1,
                                         !.serviceApi[i] = ServiceItem(q, i, item).val,
                                         !.itemRef[i] = ServiceItem(q, i, item).addr,
                                         !.heap[ServiceItem(q, i, item).addr] =
                                            ServiceItem(q, i, item).val,
                                         !.startLog = Append(@, i),
                                         !.pc[i] = "invoked"],
                               i, beh), i)
  IN IF beh.out = "throw"
       THEN [q1 EXCEPT !.link[i].st = "rejected", !.pc[i] = "done"]
       ELSE q1

\* Line 103: the service is invoked with {item}; the handler returns the
\* promise of lines 103-105, which the link follows.
InvokeOn(q, i, item, beh) ==
  MethodOn(ServiceOn([q EXCEPT !.invoked[i] = @ + 1,
                               !.serviceApi[i] = ServiceItem(q, i, item).val,
                               !.itemRef[i] = ServiceItem(q, i, item).addr,
                               !.heap[ServiceItem(q, i, item).addr] =
                                  ServiceItem(q, i, item).val,
                               !.startLog = Append(@, i),
                               !.pc[i] = "invoked"],
                     i, beh), i)

(***************************************************************************)
(* The handler given to this._tail.then, lines 95-106.                     *)
(***************************************************************************)
\* RunLinkOn as it would be if the catch of lines 99-101 threw the error on
\* instead of returning: the handler's throw would reject the link.
RunLinkOnRethrow(q, i, beh) ==
  LET api == _getServiceApi(q.deserializer, q.serializedItem[i])
  IN IF api.threw
       THEN [q EXCEPT !.callerPromise[i] = Rejected(api.error),
                      !.link[i].st = "rejected",
                      !.pc[i] = "done"]
     ELSE IF q.args[i].service # "function"
       THEN [q EXCEPT !.link[i].st = "rejected", !.pc[i] = "done"]
     ELSE InvokeOn(q, i, api.item, beh)

RunLinkOn(q, i, beh) ==
  LET api == _getServiceApi(q.deserializer, q.serializedItem[i])
  IN IF api.threw
       \* lines 99-101: reject(e); return
       THEN [q EXCEPT !.callerPromise[i] = Rejected(api.error),
                      !.link[i].st = "fulfilled",
                      !.pc[i] = "done"]
     ELSE IF q.args[i].service # "function"
       \* line 103: Promise.method throws a TypeError for a non-function,
       \* and the handler's throw rejects the link
       THEN [q EXCEPT !.link[i].st = "rejected", !.pc[i] = "done"]
     ELSE InvokeOn(q, i, api.item, beh)

\* The link of call i waits on a rejected promise: then() does not run the
\* handler, and the link is rejected with the same reason.
SkipReady(q, i) ==
  /\ q.pc[i] = "queued"
  /\ LinkSt(q, q.link[i].pred) = "rejected"

SkipOn(q, i) == [q EXCEPT !.link[i].st = "rejected", !.pc[i] = "skipped"]

\* The promise task i returned settles as p; the promise of Promise.method
\* follows it.
TaskSettleOn(q, i, p) == MethodOn([q EXCEPT !.taskPromise[i] = p], i)

\* The handlers of line 104 may run.
PublishReady(q, i) == q.pc[i] = "invoked" /\ Settled(q.methodPromise[i])

\* PublishOn as it would be if line 104 wrapped the task's error in a new
\* Error, as lines 21 and 92 do with theirs.
PublishOnWrapError(q, i) ==
  [q EXCEPT !.callerPromise[i] =
              IF q.methodPromise[i].st = "rejected"
                THEN Rejected(Err("ServiceFailed", 0))
                ELSE q.methodPromise[i],
            !.pc[i] = "published"]

\* PublishOn as it would be if line 104 called resolve without the value.
PublishOnNoValue(q, i) ==
  [q EXCEPT !.callerPromise[i] =
              IF q.methodPromise[i].st = "fulfilled"
                THEN Fulfilled(Undefined)
                ELSE q.methodPromise[i],
            !.pc[i] = "published"]

\* Line 104: .then(resolve, reject) of the caller's promise.
PublishOn(q, i) ==
  [q EXCEPT !.callerPromise[i] = q.methodPromise[i], !.pc[i] = "published"]

\* FinallyReady as it would be if the caller's handler were part of the
\* chain the link follows: the link would wait for it.
FinallyReadyAfterCaller(q, i) == q.pc[i] = "published" /\ follow[i] = "done"

\* FinallyReady as it would be if .finally were chained onto the promise of
\* Promise.method beside .then(resolve, reject) and not behind it: its
\* handler could run before the result is published.
FinallyReadyBesidePublish(q, i) ==
  \/ q.pc[i] = "published"
  \/ q.pc[i] = "invoked" /\ Settled(q.methodPromise[i])

\* The handler of line 105 may run.
FinallyReady(q, i) == q.pc[i] = "published"

\* FinallyOn as it would be if the handler of line 105 put a failed task
\* back in line: the handler of the link would run again.
FinallyOnRetry(q, i) ==
  IF q.methodPromise[i].st = "rejected" /\ q.invoked[i] < 2
    THEN [q EXCEPT !.pc[i] = "queued"]
    ELSE [q EXCEPT !.link[i].st = "fulfilled", !.pc[i] = "done"]

\* FinallyOn as it would be if the link followed the promise of
\* Promise.method itself: a failed task would reject the link.
FinallyOnAdopt(q, i) ==
  [q EXCEPT !.link[i].st = q.methodPromise[i].st, !.pc[i] = "done"]

\* Line 105: .finally(() => {}); the link follows the promise it returns,
\* which fulfils.
FinallyOn(q, i) == [q EXCEPT !.link[i].st = "fulfilled", !.pc[i] = "done"]

(***************************************************************************)
(* Inputs.                                                                 *)
(***************************************************************************)
\* The argument lists of the calls with callable tasks.
CallArgs ==
  {NoArgs, [n |-> 1, item |-> Undefined, service |-> "function"],
   [n |-> 3, item |-> Num(0), service |-> "function"]}
  \cup {[n |-> 2, item |-> it, service |-> "function"] : it \in Items}

\* The argument lists of the runs that are about the chain's progress: a
\* call that is admitted and a call that is rejected.
CoreArgs ==
  {[n |-> 1, item |-> Undefined, service |-> "function"],
   [n |-> 2, item |-> Cyclic, service |-> "function"]}

\* The argument lists of the runs with tasks that are no functions: those
\* of CoreArgs, and calls that pass a number as the task.
AnyArgs ==
  CoreArgs
  \cup {[n |-> 1, item |-> Undefined, service |-> "number"],
        [n |-> 2, item |-> Num(0), service |-> "number"]}

\* The argument lists of the runs of a queue with the stricter
\* _deserializeItem: a call without item, and calls with a number, whose
\* text it refuses, and with an object.
StrictArgs ==
  {[n |-> 1, item |-> Undefined, service |-> "function"],
   [n |-> 2, item |-> Num(0), service |-> "function"],
   [n |-> 2, item |-> Obj(0), service |-> "function"]}

\* The argument lists of the runs that are about the items: a call without
\* item and calls with an item that is undefined, a number, an object or a
\* function.
ItemArgs ==
  {[n |-> 1, item |-> Undefined, service |-> "function"]}
  \cup {[n |-> 2, item |-> it, service |-> "function"] :
          it \in {Undefined, Num(1), Obj(0), FnItem}}

\* What a task does when invoked; it calls enqueue, with arguments of A,
\* only while calls are left.
Behaviours(q, i, A) ==
  LET outs == {[out |-> "return", val |-> v] : v \in TaskValues(i)}
              \cup {[out |-> "throw", val |-> e] : e \in TaskErrors(i)}
              \cup {[out |-> "promise", val |-> Undefined]}
      plain == {[out |-> o.out, val |-> o.val, reenter |-> FALSE, rargs |-> NoArgs] :
                  o \in outs}
      re == {[out |-> o.out, val |-> o.val, reenter |-> TRUE, rargs |-> a] :
                  o \in outs, a \in A}
  IN IF q.ncalls < MaxCalls THEN plain \cup re ELSE plain

\* How the promise returned by task i may settle.
Settlements(i) ==
  {Fulfilled(v) : v \in TaskValues(i)} \cup {Rejected(e) : e \in TaskErrors(i)}

(***************************************************************************)
(* Actions.                                                                *)
(***************************************************************************)
\* A caller outside the queue's tasks calls enqueue with arguments of A.
Enqueue(A) ==
  /\ ncalls < MaxCalls
  /\ \E a \in A : SetQ(EnqueueOn(CurQ, a, 0))
  /\ UNCHANGED follow

\* The handler of the link of call i runs; the task may call enqueue with
\* arguments of A.
RunLink(i, A) ==
  /\ LinkReady(CurQ, i)
  /\ \E beh \in Behaviours(CurQ, i, A) :
       \E r \in {RunLinkOn(CurQ, i, beh)} : SetQ(SettleFollowers(r))
  /\ UNCHANGED follow

\* The handler of the link of call i runs, with a task that calls enqueue
\* with arguments of A and returns the promise that call returned.
RunLinkInner(i, A) ==
  /\ LinkReady(CurQ, i)
  /\ ncalls < MaxCalls
  /\ \E a \in A :
       \E r \in {RunLinkOn(CurQ, i, [out |-> "inner", val |-> Undefined,
                                      reenter |-> TRUE, rargs |-> a])} :
         SetQ(SettleFollowers(r))
  /\ UNCHANGED follow

\* The handler of the link of call i runs, with a task that returns a value
\* and makes no call of enqueue.
RunLinkReturning(i) ==
  /\ LinkReady(CurQ, i)
  /\ \E beh \in {b \in Behaviours(CurQ, i, {}) : b.out = "return"} :
       SetQ(RunLinkOn(CurQ, i, beh))
  /\ UNCHANGED follow

TaskSettle(i) ==
  /\ taskPromise[i].st = "pending"
  /\ \E p \in Settlements(i) : SetQ(TaskSettleOn(CurQ, i, p))
  /\ UNCHANGED follow

Publish(i) ==
  /\ PublishReady(CurQ, i)
  /\ \E r \in {PublishOn(CurQ, i)} : SetQ(SettleFollowers(r))
  /\ UNCHANGED follow

Finally(i) ==
  /\ FinallyReady(CurQ, i)
  /\ SetQ(FinallyOn(CurQ, i))
  /\ UNCHANGED follow

SkipLink(i) ==
  /\ SkipReady(CurQ, i)
  /\ SetQ(SkipOn(CurQ, i))
  /\ UNCHANGED follow

\* An object {a: n} after the assignment of another number to its field.
Mutated(v) == Obj(1 - v.v)

\* The caller of call i assigns to a field of the object it passed as the
\* item, after enqueue returned and before the task is invoked.
CallerMutates(i) ==
  /\ pc[i] = "queued"
  /\ heap[CallerAddr(i)].t = "object"
  /\ SetQ([CurQ EXCEPT !.heap[CallerAddr(i)] = Mutated(@)])
  /\ UNCHANGED follow

\* Task i assigns to a field of the item it received.
TaskMutates(i) ==
  /\ pc[i] = "invoked"
  /\ heap[itemRef[i]].t = "object"
  /\ SetQ([CurQ EXCEPT !.heap[itemRef[i]] = Mutated(@)])
  /\ UNCHANGED follow

\* The handler the caller chained onto the promise enqueue returned
\* completes (README, In Depth); it is not part of the queue.
CallerHandler(i) ==
  /\ Settled(callerPromise[i])
  /\ follow[i] = "pending"
  /\ follow' = [follow EXCEPT ![i] = "done"]
  /\ UNCHANGED <<ncalls, args, by, during, serializedItem, tail, link,
                 callerPromise, methodPromise, pc, invoked, serviceApi, result,
                 taskPromise, startLog, deserializer, heap, itemRef>>

\* A step of the queue's handlers or of a promise a task returned.
QueueStep(A) ==
  \E i \in Calls : RunLink(i, A) \/ TaskSettle(i) \/ Publish(i) \/ Finally(i)

\* The steps of the queue and of its tasks.
Next ==
  \/ Enqueue(CallArgs)
  \/ \E i \in Calls : RunLink(i, CallArgs)
  \/ \E i \in Calls : TaskSettle(i)
  \/ \E i \in Calls : Publish(i)
  \/ \E i \in Calls : Finally(i)

Spec == Init /\ [][Next]_vars

\* The same steps, with the calls drawn from CoreArgs.
NextCore ==
  \/ Enqueue(CoreArgs)
  \/ \E i \in Calls : RunLink(i, CoreArgs)
  \/ \E i \in Calls : TaskSettle(i)
  \/ \E i \in Calls : Publish(i)
  \/ \E i \in Calls : Finally(i)

\* The promise library runs a handler that is due, and a promise a task
\* returned settles: the run does not stop while such a step is possible.
FairSpec == Init /\ [][NextCore]_vars /\ WF_vars(QueueStep(CoreArgs))

\* The queue together with the handlers its callers chained onto the
\* promises enqueue returned, which complete at any time or never.
NextFollow ==
  \/ NextCore
  \/ \E i \in Calls : CallerHandler(i)

SpecFollow == Init /\ [][NextFollow]_vars

\* The queue with tasks that may return the promise of a call of enqueue
\* they made.
NextInner ==
  \/ NextCore
  \/ \E i \in Calls : RunLinkInner(i, CoreArgs)

SpecInner == Init /\ [][NextInner]_vars

\* A step of the handlers of call k or of the promise its task returned.
StepOf(k) ==
  RunLink(k, CoreArgs) \/ RunLinkInner(k, CoreArgs) \/ TaskSettle(k)
    \/ Publish(k) \/ Finally(k)

\* The queue with calls whose task may be a value that is no function.
NextAny ==
  \/ Enqueue(AnyArgs)
  \/ \E i \in Calls : RunLink(i, AnyArgs)
  \/ \E i \in Calls : TaskSettle(i)
  \/ \E i \in Calls : Publish(i)
  \/ \E i \in Calls : Finally(i)
  \/ \E i \in Calls : SkipLink(i)

SpecAny == Init /\ [][NextAny]_vars

\* A step of the queue's handlers of such a run.
QueueStepAny == QueueStep(AnyArgs) \/ \E i \in Calls : SkipLink(i)

\* The queue of a subclass whose _deserializeItem throws for some texts;
\* the tasks make no calls of their own.
NextStrict ==
  \/ Enqueue(StrictArgs)
  \/ \E i \in Calls : RunLink(i, {})
  \/ \E i \in Calls : TaskSettle(i)
  \/ \E i \in Calls : Publish(i)
  \/ \E i \in Calls : Finally(i)

SpecStrict == InitStrict /\ [][NextStrict]_vars

\* The queue with calls that pass items of every kind, the callers and the
\* tasks assigning to the fields of the objects they hold; the tasks return
\* a value and make no calls of their own.
NextItems ==
  \/ Enqueue(ItemArgs)
  \/ \E i \in Calls : RunLinkReturning(i)
  \/ \E i \in Calls : Publish(i)
  \/ \E i \in Calls : Finally(i)
  \/ \E i \in Calls : CallerMutates(i)
  \/ \E i \in Calls : TaskMutates(i)

SpecItems == Init /\ [][NextItems]_vars

(***************************************************************************)
(* Vocabulary of the properties.                                           *)
(***************************************************************************)
\* Call i reached line 95: its link is on the chain.
Admitted(i) == link[i].st # "none"
\* The task of call i has been invoked.
Started(i) == invoked[i] > 0
\* The task of call i has settled: it returned a value, it threw, or the
\* promise it returned has fulfilled or rejected.
TaskSettled(i) ==
  \/ result[i].out \in {"return", "throw"}
  \/ result[i].out = "promise" /\ Settled(taskPromise[i])
\* The task of call i is in flight: started and not settled.
InFlight(i) == Started(i) /\ ~TaskSettled(i)
\* The task of call i failed: it threw, or the promise it returned rejected.
TaskFailed(i) ==
  \/ result[i].out = "throw"
  \/ result[i].out = "promise" /\ taskPromise[i].st = "rejected"
\* The outcome of task i as a settled promise.
TaskOutcome(i) ==
  CASE result[i].out = "return" -> Fulfilled(result[i].val)
    [] result[i].out = "throw"  -> Rejected(result[i].val)
    [] OTHER                    -> taskPromise[i]
\* The admitted calls, in the order of admission.
AdmittedSeq == SelectSeq([k \in 1..ncalls |-> k], Admitted)
IsPrefix(s, t) == Len(s) <= Len(t) /\ \A k \in 1..Len(s) : s[k] = t[k]

(***************************************************************************)
(* C1: at most one task is in flight, and the task of an admitted call is  *)
(* not invoked before the task of every call admitted earlier has settled  *)
(* (returned, threw, or had its returned promise fulfil or reject).        *)
(***************************************************************************)
C1_OneInFlight ==
  /\ Cardinality({i \in Calls : InFlight(i)}) <= 1
  /\ \A i, j \in Calls :
       (i < j /\ Admitted(i) /\ Admitted(j) /\ Started(j))
          => (Started(i) /\ TaskSettled(i))

\* A task started after the promise an earlier task returned had rejected,
\* and a third call waits while the second task's promise is pending.
C1_Witness ==
  \E i, j, k \in Calls :
    /\ i < j /\ j < k
    /\ result[i].out = "promise" /\ taskPromise[i].st = "rejected"
    /\ InFlight(j)
    /\ pc[k] = "queued"

(***************************************************************************)
(* C2: the tasks are invoked in the order of admission: the sequence of    *)
(* task starts is a prefix of the sequence of admitted calls, so no task   *)
(* is skipped, reordered or overtaken, also when calls are made from       *)
(* outside while an earlier task is running.                               *)
(***************************************************************************)
C2_StartOrder == IsPrefix(startLog, AdmittedSeq)

\* Three tasks started, the last of a call made from outside the tasks
\* while an earlier task was running.
C2_Witness ==
  /\ Len(startLog) = 3
  /\ \E j \in Calls : by[j] = 0 /\ during[j] # 0 /\ startLog[3] = j

(***************************************************************************)
(* C3: a task that throws, or whose returned promise rejects, does not     *)
(* stop the queue: with every due handler run and every returned promise   *)
(* settling, the failed task's result promise rejects, and the task of     *)
(* every call admitted behind it, at any time, is invoked and its result   *)
(* promise settles as that task's own outcome.                             *)
(***************************************************************************)
C3_FailureIsolation ==
  \A i \in Calls :
    TaskFailed(i)
      ~> (/\ callerPromise[i].st = "rejected"
          /\ \A j \in Calls :
               (i < j /\ Admitted(j)) =>
                 /\ Started(j)
                 /\ Settled(callerPromise[j])
                 /\ callerPromise[j] = TaskOutcome(j))

\* A task threw, another one's promise rejected, and the task behind them
\* ran and had its result promise fulfil.
C3_Witness ==
  \E i, j, k \in Calls :
    /\ i < k /\ j < k
    /\ result[i].out = "throw" /\ callerPromise[i].st = "rejected"
    /\ result[j].out = "promise" /\ callerPromise[j].st = "rejected"
    /\ Started(k) /\ callerPromise[k].st = "fulfilled"

(***************************************************************************)
(* C4: a call made by a task while it runs is linked behind every call     *)
(* admitted before it, the ones that have not started included: its link   *)
(* waits on the last of them, and its task is invoked only after the tasks *)
(* of all of them have started and settled.                                *)
(***************************************************************************)
C4_Reentrant ==
  \A j \in Calls :
    (by[j] # 0 /\ Admitted(j)) =>
      /\ \A k \in 1..(j - 1) : Admitted(k) => link[j].pred >= k
      /\ link[j].pred < j
      /\ Admitted(link[j].pred)
      /\ Started(j) =>
           \A k \in 1..(j - 1) : Admitted(k) => (Started(k) /\ TaskSettled(k))

\* The test's case: call 1, whose task makes call 3, and call 2 made from
\* outside before task 1 ran; the tasks started in the order 1, 2, 3.
C4_Witness ==
  /\ by[3] = 1 /\ by[2] = 0 /\ during[2] = 0
  /\ startLog = <<1, 2, 3>>

(***************************************************************************)
(* C5: the next task waits for the previous task only, never for the work  *)
(* the caller chained onto the previous result promise: whenever the task  *)
(* of an admitted call has settled and a call admitted behind it has not   *)
(* finished, the queue has a step of its own to take (a handler of the     *)
(* chain that is due, or the settling of the promise of the running task), *)
(* whether the callers' handlers are pending or complete.                  *)
(***************************************************************************)
C5_CallerWorkApart ==
  (\E i, j \in Calls :
     i < j /\ Admitted(i) /\ TaskSettled(i) /\ Admitted(j) /\ pc[j] # "done")
    => ENABLED QueueStep(CoreArgs)

\* Task 2 started and finished, and the queue moved on to task 3, while the
\* handler of the caller of call 1 is still pending.
C5_Witness ==
  /\ TaskSettled(1) /\ Settled(callerPromise[1]) /\ follow[1] = "pending"
  /\ Started(2) /\ pc[2] = "done" /\ Settled(callerPromise[2])
  /\ follow[2] = "done"
  /\ Started(3)

(***************************************************************************)
(* C6: when the task of an admitted call throws e, or returns a promise    *)
(* that rejects with e, the result promise of that call is pending until   *)
(* the handlers of line 104 run and from then on rejected with e itself;   *)
(* it is never fulfilled and never rejected with another value.            *)
(***************************************************************************)
C6_RejectsWithError ==
  \A i \in Calls :
    TaskFailed(i) =>
      callerPromise[i] = IF pc[i] = "invoked" THEN Pending ELSE TaskOutcome(i)

\* One result promise rejected with the error its task threw, another with
\* the reason the promise its task returned rejected with.
C6_Witness ==
  \E i, j \in Calls :
    /\ result[i].out = "throw" /\ callerPromise[i] = Rejected(result[i].val)
    /\ result[j].out = "promise" /\ taskPromise[j].st = "rejected"
    /\ callerPromise[j] = taskPromise[j]

(***************************************************************************)
(* C7: when the task of an admitted call returns a value v that is no      *)
(* promise, the result promise fulfils with v; when it returns a promise,  *)
(* the result promise is pending while that promise is pending and         *)
(* settles as that promise does, with its value or its reason.             *)
(***************************************************************************)
C7_AdoptsOutcome ==
  \A i \in Calls :
    /\ result[i].out = "return" =>
         callerPromise[i] =
           IF pc[i] = "invoked" THEN Pending ELSE Fulfilled(result[i].val)
    /\ result[i].out = "promise" =>
         /\ taskPromise[i].st = "pending" => callerPromise[i] = Pending
         /\ callerPromise[i] \in {Pending, taskPromise[i]}
         /\ pc[i] \in {"published", "done"} => callerPromise[i] = taskPromise[i]

\* One result promise fulfilled with the value its task returned, another
\* with the value of the promise its task returned, and a third pending
\* with the promise its task returned.
C7_Witness ==
  \E i, j, k \in Calls :
    /\ result[i].out = "return" /\ callerPromise[i] = Fulfilled(Num(i))
    /\ result[j].out = "promise" /\ callerPromise[j] = Fulfilled(Num(j))
    /\ result[k].out = "promise" /\ taskPromise[k].st = "pending"

(***************************************************************************)
(* C8: a call with two arguments whose item JSON.stringify cannot encode   *)
(* (an object with a reference to itself) returns a promise that is        *)
(* rejected, from the call on, with the error of line 92; the call is not  *)
(* linked onto the chain and its task is never invoked, however many       *)
(* later calls have run.                                                   *)
(***************************************************************************)
C8_NotSerializable ==
  \A i \in 1..ncalls :
    (args[i].n = 2 /\ args[i].item = Cyclic) =>
      /\ callerPromise[i] = Rejected(Err("NotSerializable", 0))
      /\ invoked[i] = 0
      /\ ~Admitted(i)
      /\ pc[i] = "none"

\* A call with a cyclic item, and a later call whose task has run and
\* whose handlers are done.
C8_Witness ==
  \E i, j \in Calls :
    /\ i < j
    /\ args[i].n = 2 /\ args[i].item = Cyclic
    /\ Started(j) /\ pc[j] = "done"

C10_Progress ==
  /\ \A i \in Calls : Admitted(i) ~> (Started(i) /\ Settled(callerPromise[i]))
  /\ [](\A i \in Calls :
          (pc[i] = "queued" /\ link[i].pred = 0) => ENABLED RunLink(i, CallArgs))

\* Every call of the run was admitted, the first on the constructor's
\* promise; all tasks were invoked and all result promises have settled.
C10_Witness ==
  /\ link[1].pred = 0
  /\ \A i \in Calls : Admitted(i) /\ Started(i) /\ Settled(callerPromise[i])

(***************************************************************************)
(* C11: the task of an admitted call is invoked at most once, and exactly  *)
(* once when the handler of its link has run; a call only moves forward    *)
(* (waiting, invoked, result published, link settled), the outcome of its  *)
(* task and its result promise never change once settled, and its task is  *)
(* not invoked again.                                                      *)
(***************************************************************************)
PcRank(p) ==
  CASE p = "none" -> 0 [] p = "queued" -> 1 [] p = "invoked" -> 2
    [] p = "published" -> 3 [] OTHER -> 4

C11_ExactlyOnce ==
  /\ [](\A i \in Calls :
          /\ invoked[i] = IF pc[i] \in {"invoked", "published", "done"} THEN 1 ELSE 0
          /\ Cardinality({k \in 1..Len(startLog) : startLog[k] = i}) = invoked[i])
  /\ [][\A i \in Calls :
          /\ PcRank(pc'[i]) >= PcRank(pc[i])
          /\ invoked'[i] >= invoked[i]
          /\ Settled(callerPromise[i]) => callerPromise'[i] = callerPromise[i]
          /\ TaskSettled(i) => (result'[i] = result[i] /\ taskPromise'[i] = taskPromise[i])
          /\ pc[i] = "done" => (pc'[i] = "done" /\ link'[i] = link[i])]_vars

\* Every call of the run is finished, each task was invoked once; one of
\* them failed and one succeeded.
C11_Witness ==
  /\ \A i \in Calls : pc[i] = "done" /\ invoked[i] = 1
  /\ \E i, j \in Calls :
       callerPromise[i].st = "rejected" /\ callerPromise[j].st = "fulfilled"

C13_Snapshot ==
  /\ [](\A i \in Calls :
          (Started(i) /\ args[i].n = 2 /\ args[i].item.t = "object")
             => serviceApi[i] = args[i].item)
  /\ [][\A i \in Calls :
          TaskMutates(i) =>
            \A k \in Calls : heap'[CallerAddr(k)] = heap[CallerAddr(k)]]_vars

\* The caller of call i changed its object before task i was invoked, and
\* task i got the value of the time of the call; task j changed the item it
\* received, and the object of the caller of call j is as it was.
C13_Witness ==
  \E i, j \in Calls :
    /\ Started(i) /\ args[i].item = Obj(0)
    /\ heap[CallerAddr(i)] = Obj(1) /\ serviceApi[i] = Obj(0)
    /\ Started(j) /\ args[j].item = Obj(0)
    /\ heap[itemRef[j]] = Obj(1) /\ heap[CallerAddr(j)] = Obj(0)

(***************************************************************************)
(* C14: with callable tasks, whatever the calls (any number of arguments,  *)
(* any item) and whatever the tasks do (return, throw, return a promise    *)
(* that fulfils or rejects), this._tail is pending or fulfilled and never  *)
(* rejected, and so is every link of the chain: no failure of a call is    *)
(* carried on by the chain.                                                *)
(***************************************************************************)
C14_TailNeverRejected ==
  /\ LinkSt(CurQ, tail) \in {"pending", "fulfilled"}
  /\ \A i \in Calls : link[i].st # "rejected"

\* A task failed and its link, the tail, is fulfilled, after a call with a
\* wrong number of arguments and a call with an item that cannot be
\* encoded.
C14_Witness ==
  \E i, j, k \in Calls :
    /\ args[j].n \notin {1, 2} /\ callerPromise[j].st = "rejected"
    /\ args[k].n = 2 /\ args[k].item = Cyclic /\ callerPromise[k].st = "rejected"
    /\ TaskFailed(i) /\ callerPromise[i].st = "rejected"
    /\ tail = i /\ link[i].st = "fulfilled"

(***************************************************************************)
(* C15: a call with one or two arguments whose task is no function fails   *)
(* alone: once the queue has no step left to take, the result promise of   *)
(* that call is rejected, and every other admitted call, made before or    *)
(* after it, has had its task invoked and its result promise settled.      *)
(***************************************************************************)
C15_NonCallableLocal ==
  (~ENABLED QueueStepAny) =>
    \A i \in Calls :
      Admitted(i) =>
        /\ Settled(callerPromise[i])
        /\ args[i].service # "function" => callerPromise[i].st = "rejected"
        /\ args[i].service = "function" => Started(i)

RefusedArgs(a) == a.n \notin {1, 2} \/ (a.n = 2 /\ a.item = Cyclic)

C17_RefusedNoEffect ==
  /\ [](\A i \in 1..ncalls :
          RefusedArgs(args[i]) =>
            /\ link[i].st = "none" /\ pc[i] = "none" /\ tail # i
            /\ \A j \in Calls : link[j].pred # i
            /\ \A k \in 1..Len(startLog) : startLog[k] # i)
  /\ [][\A i \in Calls :
          (ncalls = i - 1 /\ ncalls' = i /\ RefusedArgs(args'[i])) =>
            /\ tail' = tail
            /\ serializedItem' = serializedItem
            /\ \A j \in Calls \ {i} : callerPromise'[j] = callerPromise[j]
            /\ by'[i] = 0 =>
                 /\ link' = link /\ pc' = pc /\ startLog' = startLog
                 /\ invoked' = invoked /\ serviceApi' = serviceApi
                 /\ result' = result /\ taskPromise' = taskPromise
                 /\ methodPromise' = methodPromise
                 /\ \A j \in Calls : LinkReady(CurQ, j)' = LinkReady(CurQ, j)
            /\ by'[i] # 0 =>
                 /\ startLog' = Append(startLog, by'[i])
                 /\ \A j \in Calls \ {by'[i]} :
                      /\ link'[j] = link[j] /\ pc'[j] = pc[j]
                      /\ invoked'[j] = invoked[j] /\ result'[j] = result[j]]_vars

\* Call 1 was refused for its item and call 3 for its arguments, call 3
\* while task 2 was running; task 2 started on the constructor's promise
\* and is done, and the tail is its link.
C17_Witness ==
  /\ args[1].n = 2 /\ args[1].item = Cyclic /\ callerPromise[1].st = "rejected"
  /\ Admitted(2) /\ link[2].pred = 0 /\ pc[2] = "done"
  /\ args[3].n \notin {1, 2} /\ during[3] = 2 /\ callerPromise[3].st = "rejected"
  /\ tail = 2

(***************************************************************************)
(* C18: the call of enqueue that links a call onto the chain does not      *)
(* invoke its task: in the state the call returns in, its result promise   *)
(* is pending, its link is pending and its task has not been invoked, also *)
(* when the tail it was linked to is fulfilled; the task is invoked by a   *)
(* later step, the handler of the link.                                    *)
(***************************************************************************)
C18_NotInsideCall ==
  /\ [][\A i \in Calls :
          (ncalls = i - 1 /\ ncalls' = i /\ link'[i].st # "none") =>
            /\ callerPromise'[i] = Pending
            /\ link'[i].st = "pending"
            /\ pc'[i] = "queued"
            /\ invoked'[i] = 0
            /\ \A k \in 1..Len(startLog') : startLog'[k] # i]_vars
  /\ [][\A i \in Calls :
          (invoked[i] = 0 /\ invoked'[i] = 1) => (pc[i] = "queued" /\ ncalls >= i)]_vars

\* Call 1 is finished and its link, the tail, is fulfilled: the queue is
\* idle.  Call 2 has been linked onto it and has returned: its result
\* promise is pending and its task has not started.
C18_Witness ==
  /\ pc[1] = "done" /\ link[1].st = "fulfilled"
  /\ ncalls = 2 /\ tail = 2 /\ link[2].pred = 1
  /\ pc[2] = "queued" /\ callerPromise[2] = Pending /\ invoked[2] = 0

(***************************************************************************)
(* C19: when _deserializeItem throws for the text of an admitted call as   *)
(* the handler of its link runs, the result promise of that call, pending  *)
(* until then, is rejected with the error of line 21, its task is not      *)
(* invoked, and its link is fulfilled, so that the handler of the call     *)
(* linked behind it can run.                                               *)
(***************************************************************************)
\* The text of call i is one this queue's _deserializeItem throws for.
DecodeFails(i) ==
  Admitted(i) /\ _getServiceApi(deserializer, serializedItem[i]).threw

C19_DecodeFailure ==
  \A i \in Calls :
    DecodeFails(i) =>
      /\ invoked[i] = 0
      /\ pc[i] \in {"queued", "done"}
      /\ pc[i] = "queued" => callerPromise[i] = Pending
      /\ pc[i] = "done" =>
           /\ callerPromise[i] = Rejected(Err("NotDeserializable", 0))
           /\ link[i].st = "fulfilled"
           /\ \A j \in Calls :
                (pc[j] = "queued" /\ link[j].pred = i) => ENABLED RunLink(j, {})

\* The text of call i could not be decoded: its promise is rejected and
\* its task was not invoked; the task of the call linked behind it was
\* invoked.
C19_Witness ==
  \E i, j \in Calls :
    /\ DecodeFails(i) /\ pc[i] = "done" /\ callerPromise[i].st = "rejected"
    /\ link[j].pred = i /\ Started(j)

(***************************************************************************)
(* C20: a call that is admitted reads this._tail and replaces it with its  *)
(* new link in one step, so the chain is a line: every link waits on one   *)
(* predecessor, the link admitted last before it (the constructor's        *)
(* promise for the first), no two links wait on the same predecessor,      *)
(* every link has at most one successor, and the tail is the link admitted *)
(* last, with no successor.                                                *)
(***************************************************************************)
\* The call admitted last before call i; 0 if there is none.
LastAdmittedBefore(i) ==
  IF \E k \in 1..(i - 1) : Admitted(k)
    THEN CHOOSE k \in 1..(i - 1) :
           Admitted(k) /\ \A m \in (k + 1)..(i - 1) : ~Admitted(m)
    ELSE 0

C20_LinearChain ==
  /\ [](/\ \A i \in Calls : Admitted(i) => link[i].pred = LastAdmittedBefore(i)
        /\ \A i, j \in Calls :
             (Admitted(i) /\ Admitted(j) /\ i # j) => link[i].pred # link[j].pred
        /\ \A i \in Calls :
             Cardinality({j \in Calls : Admitted(j) /\ link[j].pred = i}) <= 1
        /\ tail = LastAdmittedBefore(ncalls + 1)
        /\ \A j \in Calls : Admitted(j) => link[j].pred # tail)
  /\ [][\A i \in Calls :
          (link[i].st = "none" /\ link'[i].st # "none") =>
            (link'[i].pred = tail /\ tail' = i)]_vars

\* Three links in a line, the second of a call made by the first task
\* while it ran and the third of a call from outside.
C20_Witness ==
  /\ link[1].pred = 0 /\ link[2].pred = 1 /\ link[3].pred = 2 /\ tail = 3
  /\ Admitted(3)
  /\ by[2] = 1 /\ by[3] = 0

(***************************************************************************)
(* C21: for two calls with callable tasks admitted one after the other,    *)
(* the result promise of the first is already settled, as the outcome of   *)
(* its task, in the state in which the task of the second is invoked, and  *)
(* in every state after: a task's outcome is published before the next     *)
(* task starts.                                                            *)
(***************************************************************************)
C21_PublishedBeforeNext ==
  /\ [][\A j \in Calls :
          (invoked[j] = 0 /\ invoked'[j] = 1 /\ link[j].pred # 0) =>
            /\ Settled(callerPromise[link[j].pred])
            /\ callerPromise[link[j].pred] = TaskOutcome(link[j].pred)]_vars
  /\ [](\A i, j \in Calls :
          (Admitted(i) /\ Admitted(j) /\ link[j].pred = i /\ Started(j)) =>
            (Settled(callerPromise[i]) /\ callerPromise[i] = TaskOutcome(i)))

\* Three calls in a line: the promise task 1 returned rejected, task 2
\* returned a value, and task 3 has been invoked with both results out.
C21_Witness ==
  /\ link[2].pred = 1 /\ link[3].pred = 2
  /\ result[1].out = "promise" /\ callerPromise[1].st = "rejected"
  /\ result[2].out = "return" /\ callerPromise[2].st = "fulfilled"
  /\ Started(3)

(***************************************************************************)
(* C22: when a running task calls enqueue, the call is admitted, and the   *)
(* task returns the promise that call returned, the queue stops: the       *)
(* result promises of both calls stay pending, the task of the inner call  *)
(* is never invoked, no task of a call linked behind the outer one is      *)
(* ever invoked, and no handler of any of these calls can run.             *)
(***************************************************************************)
\* Task i returned the promise of the call it made, and that call was
\* admitted.
ReturnedInner(i) ==
  result[i].out = "inner" /\ Admitted(result[i].val.v)

C22_InnerPromiseStall ==
  \A i \in Calls :
    ReturnedInner(i) =>
      /\ pc[i] = "invoked"
      /\ callerPromise[i] = Pending
      /\ callerPromise[result[i].val.v] = Pending
      /\ link[i].st = "pending"
      /\ \A k \in Calls : (k > i /\ Admitted(k)) => (invoked[k] = 0 /\ pc[k] = "queued")
      /\ \A k \in Calls : k >= i => ~ENABLED StepOf(k)

\* Task 1 called enqueue and returned the promise it got; call 2, made
\* from outside before task 1 ran, and call 3, the inner one, wait.
C22_Witness ==
  /\ ReturnedInner(1) /\ result[1].val = PromiseRef(3)
  /\ by[2] = 0 /\ Admitted(2) /\ by[3] = 1
  /\ invoked = <<1, 0, 0>>

====
